---- MODULE Spec2Model ----
(***************************************************************************)
(* Model of src/lib.rs: the U256 value type (four u64 limbs, limb 0 the    *)
(* least significant for every operator) and its operators.                *)
(*                                                                         *)
(* Widths are scaled: a limb (u64 in the source) is LimbBits wide and the  *)
(* u32 half-limb is HalfBits wide, so that all U256 values and all pairs   *)
(* of them can be enumerated.  Every constant of the source that is a      *)
(* width is scaled with them: 64 and 0x40 are LimbBits, 32 is HalfBits,    *)
(* 0xFFFFFFFF is HalfMask.  The number of limbs (4) is the source's.       *)
(*                                                                         *)
(* Rust's `+` on u64 panics on overflow in a build with overflow checks    *)
(* (debug) and wraps in a build without (release); overflow_checks is the  *)
(* build, chosen in Init.  A panic (also a failed assert!) is the result   *)
(* record Panic.                                                           *)
(***************************************************************************)
EXTENDS Integers, Sequences, FiniteSets, TLC

VARIABLES
    a, b,             \* the operands the caller holds
    overflow_checks,  \* the build: TRUE with overflow checks (debug), FALSE without
    op,               \* the operation applied, "none" before any
    n,                \* the usize shift count passed
    v,                \* the native value passed (a u64, or mul_u32's u32)
    res,              \* the U256 returned
    out,              \* the native value returned (bits, Into<u64>)
    ord,              \* the Ordering returned by cmp
    aborted           \* the operation panicked

vars == <<a, b, overflow_checks, op, n, v, res, out, ord, aborted>>

\* Scaled width of the u32 half-limb (32 in the source).
HalfBits == 1
\* Scaled width of a u64 limb (64 in the source).
LimbBits == 2 * HalfBits
\* Number of limbs of U256.
NLimbs == 4
\* Shift counts run from 0 to ShiftSlack past the width of U256.
ShiftSlack == 3

Pow2(k) == 2 ^ k
\* 2^64 in the source: one more than u64::MAX.
Mod64 == Pow2(LimbBits)
U64Max == Mod64 - 1
\* 0xFFFFFFFF in the source: x & 0xFFFFFFFF is x % (HalfMask + 1).
HalfMask == Pow2(HalfBits) - 1
\* 256 in the source's terms: the width of U256.
TotalBits == NLimbs * LimbBits
MaxShift == TotalBits + ShiftSlack

Limbs == 0 .. (NLimbs - 1)
U64 == 0 .. U64Max
U32 == 0 .. HalfMask
\* pub struct U256([u64; 4])
U256 == [Limbs -> U64]

\* U256::zero()
zero == [i \in Limbs |-> 0]

\* The limb values operands are drawn from: the ends of the u64 range. At
\* HalfBits = 1 these are all four values of a limb, so Operands is all of U256.
OperandLimbs == {0, 1, U64Max - 1, U64Max}
Operands == [Limbs -> OperandLimbs]

Ok(x) == [ok |-> TRUE, val |-> x]
Panic == [ok |-> FALSE, val |-> zero]

\* u64 `+`: panics on overflow with overflow checks, wraps without.
PlusU64(x, y, oc) ==
    IF x + y <= U64Max THEN [ok |-> TRUE, val |-> x + y]
    ELSE IF oc THEN [ok |-> FALSE, val |-> 0]
    ELSE [ok |-> TRUE, val |-> (x + y) % Mod64]

\* u64 `<<` by k < 64: the bits shifted past bit 63 are dropped.
ShlU64(x, k) == (x * Pow2(k)) % Mod64
\* u64 `>>` by k < 64.
ShrU64(x, k) == x \div Pow2(k)

RECURSIVE BitLen(_)
\* 64 - x.leading_zeros() of a u64 x.
BitLen(x) == IF x = 0 THEN 0 ELSE 1 + BitLen(x \div 2)
leading_zeros(x) == LimbBits - BitLen(x)

\* U256::low_u32
low_u32(x) == x[0] % Pow2(HalfBits)

RECURSIVE bitsLoop(_, _)
bitsLoop(arr, i) ==
    IF i >= NLimbs THEN LimbBits - leading_zeros(arr[0])
    ELSE IF arr[NLimbs - i] > 0
         THEN (LimbBits * (NLimbs - i + 1)) - leading_zeros(arr[NLimbs - i])
         ELSE bitsLoop(arr, i + 1)
\* U256::bits
bits(x) == bitsLoop(x, 1)

\* From<u64> placing the value in limb 0, the limb Into<u64> requires to be zero.
From_u64_low(val) == [i \in Limbs |-> IF i = 0 THEN val ELSE 0]

\* impl From<u64> for U256
From_u64(val) == [i \in Limbs |-> IF i = 3 THEN val ELSE 0]

\* impl Into<u64> for U256
Into_u64(x) ==
    IF x[0] = 0 /\ x[1] = 0 /\ x[2] = 0
    THEN [ok |-> TRUE, val |-> x[3]]
    ELSE [ok |-> FALSE, val |-> 0]

\* impl Not for U256
Not(x) == [i \in Limbs |-> U64Max - x[i]]

RECURSIVE addLoop(_, _, _, _, _, _)
addLoop(me, you, i, ret, carry, oc) ==
    IF i >= NLimbs
    THEN (IF carry = FALSE THEN Ok(ret) ELSE Panic)
    ELSE LET s == me[i] + you[i]
             w == s % Mod64
             o == s > U64Max
             r == PlusU64(w, IF carry THEN 1 ELSE 0, oc)
         IN  IF ~r.ok THEN Panic
             ELSE addLoop(me, you, i + 1, [ret EXCEPT ![i] = r.val], o, oc)
\* impl Add for U256
Add(me, you, oc) == addLoop(me, you, 0, zero, FALSE, oc)

\* impl Sub for U256
Sub(x, y, oc) == Add(x, Not(y), oc)

RECURSIVE cmpLoop(_, _, _)
cmpLoop(me, you, i) ==
    IF i > 0
    THEN IF me[i - 1] < you[i - 1] THEN "Less"
         ELSE IF me[i - 1] > you[i - 1] THEN "Greater"
         ELSE cmpLoop(me, you, i - 1)
    ELSE "Equal"
RECURSIVE cmpLoopUp(_, _, _)
cmpLoopUp(me, you, i) ==
    IF i < NLimbs
    THEN IF me[i] < you[i] THEN "Less"
         ELSE IF me[i] > you[i] THEN "Greater"
         ELSE cmpLoopUp(me, you, i + 1)
    ELSE "Equal"
\* cmp scanning the limbs from index 0 up instead of from index 3 down.
cmp_from_low(me, you) == cmpLoopUp(me, you, 0)

\* impl Ord for U256
cmp(me, you) == cmpLoop(me, you, NLimbs)
\* derive(PartialEq)
eq(x, y) == \A i \in Limbs : x[i] = y[i]
\* PartialOrd's operators, from partial_cmp
lt(x, y) == cmp(x, y) = "Less"
gt(x, y) == cmp(x, y) = "Greater"
ge(x, y) == cmp(x, y) # "Less"

RECURSIVE shlLoop(_, _, _, _, _, _)
shlLoop(original, word_shift, bit_shift, i, ret, oc) ==
    IF i >= NLimbs THEN Ok(ret)
    ELSE LET s1 == IF bit_shift < LimbBits /\ i + word_shift < NLimbs
                   THEN PlusU64(ret[i + word_shift], ShlU64(original[i], bit_shift), oc)
                   ELSE [ok |-> TRUE, val |-> 0]
             ret1 == IF bit_shift < LimbBits /\ i + word_shift < NLimbs
                     THEN [ret EXCEPT ![i + word_shift] = s1.val]
                     ELSE ret
             s2 == IF bit_shift > 0 /\ i + word_shift + 1 < NLimbs
                   THEN PlusU64(ret1[i + word_shift + 1],
                                ShrU64(original[i], LimbBits - bit_shift), oc)
                   ELSE [ok |-> TRUE, val |-> 0]
             ret2 == IF bit_shift > 0 /\ i + word_shift + 1 < NLimbs
                     THEN [ret1 EXCEPT ![i + word_shift + 1] = s2.val]
                     ELSE ret1
         IN  IF ~s1.ok \/ ~s2.ok THEN Panic
             ELSE shlLoop(original, word_shift, bit_shift, i + 1, ret2, oc)
\* impl Shl<usize> for U256
Shl(x, shift, oc) ==
    shlLoop(x, shift \div LimbBits, shift % LimbBits, 0, zero, oc)

RECURSIVE shrLoop(_, _, _, _, _, _)
shrLoop(original, word_shift, bit_shift, i, ret, oc) ==
    IF i >= NLimbs THEN Ok(ret)
    ELSE LET s1 == PlusU64(ret[i - word_shift], ShrU64(original[i], bit_shift), oc)
             ret1 == [ret EXCEPT ![i - word_shift] = s1.val]
             s2 == IF bit_shift > 0 /\ i < NLimbs - 1
                   THEN PlusU64(ret1[i - word_shift],
                                ShlU64(original[i + 1], LimbBits - bit_shift), oc)
                   ELSE [ok |-> TRUE, val |-> 0]
             ret2 == IF bit_shift > 0 /\ i < NLimbs - 1
                     THEN [ret1 EXCEPT ![i - word_shift] = s2.val]
                     ELSE ret1
         IN  IF ~s1.ok \/ ~s2.ok THEN Panic
             ELSE shrLoop(original, word_shift, bit_shift, i + 1, ret2, oc)
\* Shr without the carry-in from limb i + 1.
Shr_no_carry(x, shift, oc) ==
    Ok([i \in Limbs |->
          IF i + (shift \div LimbBits) < NLimbs
          THEN ShrU64(x[i + (shift \div LimbBits)], shift % LimbBits)
          ELSE 0])

\* impl Shr<usize> for U256
Shr(x, shift, oc) ==
    shrLoop(x, shift \div LimbBits, shift % LimbBits, shift \div LimbBits, zero, oc)

RECURSIVE mulU32Loop(_, _, _, _, _, _)
mulU32Loop(arr, other, i, carry, ret, oc) ==
    IF i >= NLimbs THEN Add(ret, carry, oc)
    ELSE LET upper == other * ShrU64(arr[i], HalfBits)
             lower == other * (arr[i] % (HalfMask + 1))
             c == IF i < 3
                  THEN PlusU64(carry[i + 1], ShrU64(upper, HalfBits), oc)
                  ELSE [ok |-> TRUE, val |-> 0]
             carry1 == IF i < 3 THEN [carry EXCEPT ![i + 1] = c.val] ELSE carry
             r == PlusU64(lower, ShlU64(upper, HalfBits), oc)
         IN  IF ~c.ok \/ ~r.ok THEN Panic
             ELSE mulU32Loop(arr, other, i + 1, carry1, [ret EXCEPT ![i] = r.val], oc)
\* U256::mul_u32
mul_u32(x, other, oc) == mulU32Loop(x, other, 0, zero, zero, oc)

RECURSIVE mulLoop(_, _, _, _)
mulLoop(me, other, i, oc) ==
    IF i >= 2 * NLimbs THEN Ok(me)
    ELSE LET sh == Shr(other, HalfBits * i, oc)
             p == mul_u32(me, low_u32(sh.val), oc)
             s == Add(me, p.val, oc)
             t == Shl(s.val, HalfBits * i, oc)
         IN  IF ~sh.ok THEN Panic
             ELSE IF ~p.ok THEN Panic
             ELSE IF ~s.ok THEN Panic
             ELSE IF ~t.ok THEN Panic
             ELSE mulLoop(t.val, other, i + 1, oc)
\* impl Mul for U256
Mul(x, other, oc) == mulLoop(x, other, 0, oc)

\* ret[shift / 64] |= 1 << (shift % 64)
OrBit(x, k) == IF (x \div Pow2(k)) % 2 = 1 THEN x ELSE x + Pow2(k)

RECURSIVE divLoop(_, _, _, _, _)
divLoop(sub_copy, shift_copy, ret, shift, oc) ==
    LET hit == ge(sub_copy, shift_copy)
        ret1 == IF hit
                THEN [ret EXCEPT ![shift \div LimbBits] = OrBit(@, shift % LimbBits)]
                ELSE ret
        d == IF hit THEN Sub(sub_copy, shift_copy, oc) ELSE Ok(sub_copy)
        sc == Shr(shift_copy, 1, oc)
    IN  IF ~d.ok THEN Panic
        ELSE IF ~sc.ok THEN Panic
        ELSE IF shift = 0 THEN Ok(ret1)
        ELSE divLoop(d.val, sc.val, ret1, shift - 1, oc)
\* impl Div for U256
Div(x, other, oc) ==
    LET my_bits == bits(x)
        your_bits == bits(other)
        sh == Shl(other, my_bits - your_bits, oc)
    IN  IF your_bits = 0 THEN Panic
        ELSE IF my_bits < your_bits THEN Ok(zero)
        ELSE IF ~sh.ok THEN Panic
        ELSE divLoop(x, sh.val, zero, my_bits - your_bits, oc)

TypeOK ==
    /\ a \in U256 /\ b \in U256 /\ res \in U256
    /\ overflow_checks \in BOOLEAN /\ aborted \in BOOLEAN
    /\ n \in 0 .. MaxShift /\ v \in U64 /\ out \in 0 .. TotalBits
    /\ ord \in {"none", "Less", "Equal", "Greater"}

Fresh ==
    /\ op = "none"
    /\ n = 0
    /\ v = 0
    /\ res = zero
    /\ out = 0
    /\ ord = "none"
    /\ aborted = FALSE

\* A caller holding two values, about to apply a binary operator.
Init ==
    /\ a \in Operands
    /\ b \in Operands
    /\ overflow_checks \in BOOLEAN
    /\ Fresh

\* A caller holding one value, about to apply a unary operator or a conversion.
InitUnary ==
    /\ a \in Operands
    /\ b = zero
    /\ overflow_checks \in BOOLEAN
    /\ Fresh

\* The outcome of an operator returning a U256 (or panicking).
Finish(name, r) ==
    /\ op' = name
    /\ res' = r.val
    /\ aborted' = ~r.ok

\* a + b
DoAdd ==
    /\ op = "none"
    /\ Finish("add", Add(a, b, overflow_checks))
    /\ UNCHANGED <<a, b, overflow_checks, n, v, out, ord>>

\* a - b
DoSub ==
    /\ op = "none"
    /\ Finish("sub", Sub(a, b, overflow_checks))
    /\ UNCHANGED <<a, b, overflow_checks, n, v, out, ord>>

\* a * b
DoMul ==
    /\ op = "none"
    /\ Finish("mul", Mul(a, b, overflow_checks))
    /\ UNCHANGED <<a, b, overflow_checks, n, v, out, ord>>

\* a / b
DoDiv ==
    /\ op = "none"
    /\ Finish("div", Div(a, b, overflow_checks))
    /\ UNCHANGED <<a, b, overflow_checks, n, v, out, ord>>

\* a.cmp(&b)
DoCmp ==
    /\ op = "none"
    /\ op' = "cmp"
    /\ ord' = cmp(a, b)
    /\ UNCHANGED <<a, b, overflow_checks, n, v, res, out, aborted>>

\* a << m
DoShl ==
    /\ op = "none"
    /\ \E m \in 0 .. MaxShift :
        /\ n' = m
        /\ Finish("shl", Shl(a, m, overflow_checks))
    /\ UNCHANGED <<a, b, overflow_checks, v, out, ord>>

\* a >> m
DoShr ==
    /\ op = "none"
    /\ \E m \in 0 .. MaxShift :
        /\ n' = m
        /\ Finish("shr", Shr(a, m, overflow_checks))
    /\ UNCHANGED <<a, b, overflow_checks, v, out, ord>>

\* (a << n) >> n: the value DoShl returned, shifted back by the same count
DoShrBack ==
    /\ op = "shl"
    /\ ~aborted
    /\ Finish("shl_shr", Shr(res, n, overflow_checks))
    /\ UNCHANGED <<a, b, overflow_checks, n, v, out, ord>>

\* !a
DoNot ==
    /\ op = "none"
    /\ Finish("not", Ok(Not(a)))
    /\ UNCHANGED <<a, b, overflow_checks, n, v, out, ord>>

\* a.mul_u32(s)
DoMulU32 ==
    /\ op = "none"
    /\ \E s \in U32 :
        /\ v' = s
        /\ Finish("mul_u32", mul_u32(a, s, overflow_checks))
    /\ UNCHANGED <<a, b, overflow_checks, n, out, ord>>

\* U256::from(x) of a u64 x
DoFrom ==
    /\ op = "none"
    /\ \E x \in U64 :
        /\ v' = x
        /\ Finish("from", Ok(From_u64(x)))
    /\ UNCHANGED <<a, b, overflow_checks, n, out, ord>>

\* x.bits(), of the operand or of the value DoFrom returned
DoBits ==
    /\ op \in {"none", "from"}
    /\ op' = IF op = "from" THEN "from_bits" ELSE "bits"
    /\ out' = bits(IF op = "from" THEN res ELSE a)
    /\ UNCHANGED <<a, b, overflow_checks, n, v, res, ord, aborted>>

\* Into<u64>, of the operand or of the value DoFrom returned
DoInto ==
    /\ op \in {"none", "from"}
    /\ op' = IF op = "from" THEN "from_into" ELSE "into"
    /\ LET r == Into_u64(IF op = "from" THEN res ELSE a)
       IN  out' = r.val /\ aborted' = ~r.ok
    /\ UNCHANGED <<a, b, overflow_checks, n, v, res, ord>>

Next == DoAdd \/ DoSub \/ DoMul \/ DoDiv \/ DoCmp

NextUnary ==
    DoShl \/ DoShr \/ DoShrBack \/ DoNot \/ DoMulU32 \/ DoFrom \/ DoBits \/ DoInto

\* The binary operators applied to every pair of operands.
Spec == Init /\ [][Next]_vars

\* The unary operators, shifts and conversions applied to every operand.
SpecUnary == InitUnary /\ [][NextUnary]_vars
(***************************************************************************)
(* The value a U256 represents: the sum of limb[i] * 2^(64*i).             *)
(***************************************************************************)
Val(x) == x[0] + x[1] * Mod64 + x[2] * Mod64 * Mod64 + x[3] * Mod64 * Mod64 * Mod64
\* 2^256 in the source's terms.
TwoTo256 == Pow2(TotalBits)

\* C1: whenever a + b < 2^256, Add returns (no panic) and the value of the
\* result is exactly a + b, every limb's carry reaching the next limb.
C1_AddExactWhenRepresentable ==
    (op = "add" /\ Val(a) + Val(b) < TwoTo256)
        => (~aborted /\ Val(res) = Val(a) + Val(b))

\* C2: whenever a + b >= 2^256, Add panics and returns no value.
C2_AddTrapsOnOverflow ==
    (op = "add" /\ Val(a) + Val(b) >= TwoTo256) => aborted

\* C3: whenever b > a, a - b panics instead of returning a wrapped value.
C3_SubTrapsWhenSubtrahendLarger ==
    (op = "sub" /\ Val(b) > Val(a)) => aborted

\* C4: Mul returns the low 256 bits of the product: value (a * b) mod 2^256,
\* so a * zero() = zero() and a * 1 = a.
C4_MulLow256 ==
    op = "mul" => (~aborted /\ Val(res) = (Val(a) * Val(b)) % TwoTo256)

\* C5: multiplication, mul_u32 and the shifts never panic.
C5_MulAndShiftsNeverFault ==
    op \in {"mul", "mul_u32", "shl", "shr", "shl_shr"} => ~aborted

\* C6: for b # zero(), Div returns the exact quotient floor(a / b), with
\* q * b <= a < q * b + b; only division by zero() panics.
C6_DivExact ==
    op = "div" =>
        IF b = zero THEN aborted
        ELSE /\ ~aborted
             /\ Val(res) * Val(b) <= Val(a)
             /\ Val(a) < Val(res) * Val(b) + Val(b)

\* C7: U256::from(v) has limb 0 = v and limbs 1, 2, 3 = 0, its value is v and
\* its bits() is the bit length of v.
C7_FromU64LowLimb ==
    /\ op \in {"from", "from_bits"} =>
           (res[0] = v /\ res[1] = 0 /\ res[2] = 0 /\ res[3] = 0 /\ Val(res) = v)
    /\ op = "from_bits" => out = BitLen(v)

\* C8: narrowing U256::from(v) back with Into<u64> does not panic and
\* returns exactly v.
C8_FromIntoRoundTrip ==
    op = "from_into" => (~aborted /\ out = v)

\* C8's case: the largest u64 made into a U256 and narrowed back.
C8_Witness ==
    op = "from_into" /\ v = U64Max /\ out = U64Max /\ ~aborted

\* C9: (a << m) >> m = a when m < 256 and a.bits() + m <= 256, and a << m and
\* a >> m are zero() for every m >= 256; none of these shifts panics.
C9_ShiftIdentities ==
    /\ (op = "shl_shr" /\ n < TotalBits /\ BitLen(Val(a)) + n <= TotalBits)
           => (~aborted /\ res = a)
    /\ (op \in {"shl", "shr"} /\ n >= TotalBits) => (~aborted /\ res = zero)
    /\ (op = "shl" /\ n < TotalBits /\ BitLen(Val(a)) + n <= TotalBits) => ~aborted

\* C9's case: a value with bits in two limbs shifted across a limb boundary by
\* a count that is no multiple of the limb width, and back.
C9_Witness ==
    /\ op = "shl_shr"
    /\ n = LimbBits + 1
    /\ a[0] = U64Max /\ a[1] = 1 /\ a[2] = 0 /\ a[3] = 0
    /\ res = a

\* C10: cmp is Less, Equal, Greater exactly when the value of a is less than,
\* equal to, greater than the value of b; a == b iff all limbs are equal; and
\* exactly one of a < b, a == b, a > b holds.
C10_OrderMatchesMagnitude ==
    op = "cmp" =>
        /\ (ord = "Less") = (Val(a) < Val(b))
        /\ (ord = "Equal") = (Val(a) = Val(b))
        /\ (ord = "Greater") = (Val(a) > Val(b))
        /\ eq(a, b) = (ord = "Equal")
        /\ Cardinality({p \in {"lt", "eq", "gt"} :
               \/ p = "lt" /\ lt(a, b)
               \/ p = "eq" /\ eq(a, b)
               \/ p = "gt" /\ gt(a, b)}) = 1

\* C10's case: the most significant limb decides against the lower limbs.
C10_Witness ==
    /\ op = "cmp"
    /\ a[3] < b[3] /\ a[2] > b[2] /\ a[1] > b[1] /\ a[0] > b[0]
    /\ ord = "Less"
====
